---- MODULE Spec2Model ----
(***************************************************************************)
(* Study Timer (React Native): the persistent store (AsyncStorage), the    *)
(* useStorage hook instances held by HomeScreen, CourseScreen and          *)
(* TimerScreen, and the TimerScreen countdown with its session recorder.   *)
(*                                                                         *)
(* Granularity.  An event handler, the state updates it queues, the        *)
(* re-render they cause and the effects of that render are one step.  An   *)
(* `await` ends the step: the storage request is appended to `pending`     *)
(* and the rest of the async function runs when the request is answered.   *)
(* Storage requests are answered in the order they were issued.            *)
(*                                                                         *)
(* A closure is modelled by the values it captured.  The setInterval       *)
(* callback of the timer effect (deps [timerState.isRunning]) keeps the    *)
(* handleTimerComplete of the render in which the effect last ran, hence   *)
(* that render's timerState.targetSeconds and that render's addSession,    *)
(* which appends to that render's `sessions`: this is `cl`.                *)
(***************************************************************************)
EXTENDS Integers, Sequences, FiniteSets, TLC

\* ---------------------------------------------------------------- bounds
MaxAdvances == 2      \* clock advances per behaviour
AdvanceMs == 61500    \* milliseconds per clock advance
MaxSessions == 3      \* sessions created per behaviour
MaxCourses == 2       \* courses created, the seeded one included
MaxRuns == 2          \* timer runs started per behaviour
MaxPending == 2       \* storage requests awaiting an answer
MaxColors == 1        \* colours picked, of each colour list
StoreBudget == 1      \* SpecStore: timer runs, clock advances, new sessions

\* ------------------------------------------------------- program constants
Null == -1                 \* startTime: number | null
MsPerSecond == 1000        \* Math.floor((now - startTime) / 1000)
SecondsPerMinute == 60     \* minutesToSeconds
MaxDurationMinutes == 480  \* customMinutes <= 480

\* What the user types, as sequences of characters, in CourseScreen's custom
\* duration field (customDuration) and in TimerScreen's new-cycle dialog
\* (customTimeInput).
CustomDurationInputs ==
  {<<"2">>, <<"0">>, <<"4", "8", "1">>, <<>>, <<"a">>, <<"2", "-", "3">>}
CustomTimeInputs ==
  {<<"1">>, <<"0">>, <<"4", "8", "1">>, <<>>, <<"a">>, <<"1", "-", "2">>}

\* ---------------------------------------------------------------- helpers
Max(a, b) == IF a >= b THEN a ELSE b

RECURSIVE FilterSeq(_, _)
\* Array.prototype.filter, by the set of indices kept
FilterSeq(s, keep) ==
  IF s = <<>> THEN <<>>
  ELSE LET rest == FilterSeq(Tail(s), {i - 1 : i \in keep \ {1}})
       IN IF 1 \in keep THEN <<Head(s)>> \o rest ELSE rest

\* courses.filter(course => course.id !== id)
CoursesWithout(cs, id) == FilterSeq(cs, {i \in DOMAIN cs : cs[i].id # id})

\* sessions.filter(session => session.courseId !== id)
SessionsWithout(ss, id) == FilterSeq(ss, {i \in DOMAIN ss : ss[i].courseId # id})

\* courses.find(c => c.id === courseId) is defined
HasCourse(cs, id) == \E i \in DOMAIN cs : cs[i].id = id

minutesToSeconds(minutes) == minutes * SecondsPerMinute

\* uid('c_') / uid('s_'): a fresh identifier
uid(counter) == counter + 1

VARIABLES
  now,        \* Date.now(), in milliseconds
  store,      \* AsyncStorage: [courses, sessions], the two persisted blobs
  mem,        \* useStorage state of each screen's hook instance
  nav,        \* the screen on top of the HomeStack
  route,      \* route.params of CourseScreen / TimerScreen
  timerState, \* TimerScreen timerState
  cl,         \* what the live setInterval callback captured
  ui,         \* TimerScreen modal flags
  appState,   \* appStateRef.current
  pending,    \* storage requests issued and not yet answered
  nextSid,    \* session ids handed out
  nextCid,    \* course ids handed out
  run,        \* history: the number of the current timer run
  runInfo,    \* history: per run, its target and what happened to it
  failed,     \* history: some storage write was rejected
  faults,     \* environment: whether the store may reject a write
  lim         \* what a behaviour may use up: [runs, sessions, advances]

vars == <<now, store, mem, nav, route, timerState, cl, ui, appState, pending,
          nextSid, nextCid, run, runInfo, failed, faults, lim>>

Screens == {"home", "course", "timer", "analytics"}

EmptyHook == [courses |-> <<>>, sessions |-> <<>>]

\* Session of types/index.ts, plus the run that produced it (history).
Session(id, courseId, startAt, durationSeconds, targetSeconds, isPartial, r) ==
  [id |-> id, courseId |-> courseId, startAt |-> startAt,
   durationSeconds |-> durationSeconds, targetSeconds |-> targetSeconds,
   isPartial |-> isPartial, run |-> r]

Course(id, name, createdAt, color) ==
  [id |-> id, name |-> name, createdAt |-> createdAt, color |-> color]

\* addCourse's palette, and the colour tags of the rename dialog
palette == <<"#FF6B6B", "#4ECDC4", "#FFD166", "#6C63FF", "#FF8C42">>
colorTags == palette \o <<"#00B894">>

\* The colours Math.random picks for a new course, and those a user picks
\* in the rename dialog (the last colour tags: one is not in the palette)
AssignedColors == {palette[k] : k \in 1..MaxColors}
RenameColors == {colorTags[k] : k \in (Len(colorTags) - MaxColors + 1)..Len(colorTags)}

RECURSIVE TrimLeft(_)
TrimLeft(s) == IF s # <<>> /\ Head(s) = " " THEN TrimLeft(Tail(s)) ELSE s

RECURSIVE TrimRight(_)
TrimRight(s) ==
  IF s # <<>> /\ s[Len(s)] = " " THEN TrimRight(SubSeq(s, 1, Len(s) - 1)) ELSE s

\* String.prototype.trim, a name being its sequence of characters
Trim(s) == TrimRight(TrimLeft(s))

\* The ten decimal digit characters, in order of value
DigitChars == <<"0", "1", "2", "3", "4", "5", "6", "7", "8", "9">>

IsDigit(c) == \E k \in DOMAIN DigitChars : DigitChars[k] = c

DigitValue(c) == (CHOOSE k \in DOMAIN DigitChars : DigitChars[k] = c) - 1

RECURSIVE LeadingDigits(_, _)
\* The value of the longest prefix of digits of s, continuing from acc
LeadingDigits(s, acc) ==
  IF s = <<>> \/ ~IsDigit(Head(s)) THEN acc
  ELSE LeadingDigits(Tail(s), acc * 10 + DigitValue(Head(s)))

\* Number.NaN: every comparison with it is false
NaN == [nan |-> TRUE, n |-> 0]

\* parseInt(text): leading blanks are skipped, then an optional sign and the
\* longest run of digits are read and whatever follows is ignored; NaN when
\* there is no digit to read.
parseInt(text) ==
  LET s == TrimLeft(text)
      signed == s # <<>> /\ Head(s) \in {"-", "+"}
      digits == IF signed THEN Tail(s) ELSE s
  IN IF digits = <<>> \/ ~IsDigit(Head(digits)) THEN NaN
     ELSE [nan |-> FALSE,
           n |-> IF signed /\ Head(s) = "-" THEN 0 - LeadingDigits(digits, 0)
                 ELSE LeadingDigits(digits, 0)]

\* What the user types as a course name.
NameInputs == {<<" ", "d", " ">>, <<" ">>}

\* A request to the store and the continuation waiting for its answer.
\*   kind  "load" (loadData) or "write" (AsyncStorage.setItem)
\*   key   the blob written
\*   val   the value written
\*   cont  the async function suspended on it
\*   inst  the hook instance that issued it; live = its screen is still mounted
\*   id    removeCourse's argument; clos: the `sessions` removeCourse captured
Request(kind, key, val, cont, inst, id, clos) ==
  [kind |-> kind, key |-> key, val |-> val, cont |-> cont, inst |-> inst,
   live |-> TRUE, id |-> id, clos |-> clos]

LoadRequest(inst) == Request("load", "all", <<>>, "loadData", inst, 0, <<>>)

NoRunInfo == [target |-> 0, completed |-> 0, terms |-> 0, termElapsed |-> 0]

TimerIdle ==
  [isRunning |-> FALSE, remainingSeconds |-> 0, elapsedSeconds |-> 0,
   targetSeconds |-> 0, startTime |-> Null]

NoModals == [completion |-> FALSE, newCycle |-> FALSE, customInput |-> FALSE]

\* The store a launch starts from: what earlier launches left (a course and
\* one full session of it).  `unparseable` names the keys whose stored blob
\* JSON.parse cannot read; a blob the app has written is readable.
SeedStore ==
  [courses |-> <<Course(1, <<"a">>, 0, palette[1])>>,
   sessions |-> <<Session(1, 1, 0, minutesToSeconds(1), minutesToSeconds(1), FALSE, 0)>>,
   unparseable |-> {}]

\* The hook state that holds exactly what is stored.
HookOf(st) == [courses |-> st.courses, sessions |-> st.sessions]

NoClosure == [targetSeconds |-> 0, sessions |-> <<>>]

NoRoute == [courseId |-> 0, durationMinutes |-> 0]

Init ==
  /\ now = AdvanceMs
  /\ store = SeedStore
  /\ mem = [i \in Screens |-> EmptyHook]
  /\ nav = "home"
  /\ route = NoRoute
  /\ timerState = TimerIdle
  /\ cl = NoClosure
  /\ ui = NoModals
  /\ appState = "active"
  /\ pending = <<LoadRequest("home")>>
  /\ nextSid = 1
  /\ nextCid = 1
  /\ run = 0
  /\ lim = [runs |-> StoreBudget + 1, sessions |-> StoreBudget + 1,
            advances |-> StoreBudget + 1]
  /\ runInfo = [r \in 1..lim.runs |-> NoRunInfo]
  /\ failed = FALSE
  /\ faults = TRUE

\* ------------------------------------------------------------ useStorage
\* setCourses / setSessions of instance i: a setState on an unmounted
\* component does nothing.
SetHook(m, i, field, val, live) ==
  IF live THEN [m EXCEPT ![i][field] = val] ELSE m

\* The screen of instance i goes away: its suspended functions still run to
\* the end, but their setState and navigation calls no longer do anything.
Unmount(q, insts) ==
  [k \in DOMAIN q |-> IF q[k].inst \in insts THEN [q[k] EXCEPT !.live = FALSE] ELSE q[k]]

\* The hook state of an unmounted screen is gone.
Dropped(m, insts) == [i \in Screens |-> IF i \in insts THEN EmptyHook ELSE m[i]]

\* addSession of instance i, as created by a render whose `sessions` was
\* `closure`: up to the await of AsyncStorage.setItem.
addSession(i, closure, courseId, durationSeconds, targetSeconds, isPartial, cont) ==
  LET newSession == Session(uid(nextSid), courseId, now, durationSeconds,
                            targetSeconds, isPartial, run)
      updatedSessions == Append(closure, newSession)
  IN /\ nextSid' = uid(nextSid)
     /\ mem' = SetHook(mem, i, "sessions", updatedSessions, TRUE)
     /\ pending' = Append(pending,
                     Request("write", "sessions", updatedSessions, cont, i, 0, <<>>))

\* removeCourse of instance i, up to its first await.
removeCourse(i, id) ==
  LET updatedCourses == CoursesWithout(mem[i].courses, id)
  IN /\ mem' = SetHook(mem, i, "courses", updatedCourses, TRUE)
     /\ pending' = Append(pending,
                     Request("write", "courses", updatedCourses, "removeCourse1",
                             i, id, mem[i].sessions))

\* addCourse of instance i, up to its await.
addCourse(i, name, assignedColor) ==
  LET newCourse == Course(uid(nextCid), Trim(name), now, assignedColor)
      updatedCourses == Append(mem[i].courses, newCourse)
  IN /\ nextCid' = uid(nextCid)
     /\ mem' = SetHook(mem, i, "courses", updatedCourses, TRUE)
     /\ pending' = Append(pending,
                     Request("write", "courses", updatedCourses, "addCourse",
                             i, 0, <<>>))

\* courses.map(course => course.id === id ? { ...course, ...updates } : course)
updatedCoursesOf(courses, id, updates) ==
  [k \in DOMAIN courses |->
     IF courses[k].id = id THEN updates @@ courses[k] ELSE courses[k]]

\* updateCourse of instance i, up to its await.
updateCourse(i, id, updates) ==
  LET updatedCourses == updatedCoursesOf(mem[i].courses, id, updates)
  IN /\ mem' = SetHook(mem, i, "courses", updatedCourses, TRUE)
     /\ pending' = Append(pending,
                     Request("write", "courses", updatedCourses, "updateCourse",
                             i, id, <<>>))

Room == Len(pending) < MaxPending

\* ------------------------------------------------------------ HomeScreen
\* HomeScreen shows only "Loading..." until its hook's one load has finished.
HomeLoading ==
  \E k \in DOMAIN pending :
    pending[k].kind = "load" /\ pending[k].inst = "home"

HomeAddCourse ==
  /\ nav = "home" /\ ~HomeLoading /\ Room /\ nextCid < MaxCourses
  /\ \E name \in NameInputs, assignedColor \in AssignedColors :
       /\ Trim(name) # <<>>
       /\ addCourse("home", name, assignedColor)
  /\ UNCHANGED <<now, store, nav, route, timerState, cl, ui, appState, nextSid,
                 run, runInfo, failed, faults, lim>>

HomeRemoveCourse ==
  /\ nav = "home" /\ ~HomeLoading /\ Room
  /\ \E k \in DOMAIN mem["home"].courses :
       removeCourse("home", mem["home"].courses[k].id)
  /\ UNCHANGED <<now, store, nav, route, timerState, cl, ui, appState, nextSid,
                 nextCid, run, runInfo, failed, faults, lim>>

\* The rename dialog of a course card, Save pressed: renameCourseId is the
\* card's course, renameValue what was typed, renameColor the tag picked.
HomeRenameCourse ==
  /\ nav = "home" /\ ~HomeLoading /\ Room
  /\ \E k \in DOMAIN mem["home"].courses, renameValue \in NameInputs,
        renameColor \in RenameColors :
       LET name == Trim(renameValue)
       IN /\ name # <<>>
          /\ updateCourse("home", mem["home"].courses[k].id,
                          [name |-> name, color |-> renameColor])
  /\ UNCHANGED <<now, store, nav, route, timerState, cl, ui, appState, nextSid,
                 nextCid, run, runInfo, failed, faults, lim>>

\* handleCoursePress: CourseScreen mounts with a hook instance of its own,
\* which loads on mount.
HomeOpenCourse ==
  /\ nav = "home" /\ ~HomeLoading /\ Room
  /\ \E k \in DOMAIN mem["home"].courses :
       route' = [route EXCEPT !.courseId = mem["home"].courses[k].id]
  /\ nav' = "course"
  /\ mem' = [mem EXCEPT !["course"] = EmptyHook]
  /\ pending' = Append(pending, LoadRequest("course"))
  /\ UNCHANGED <<now, store, timerState, cl, ui, appState, nextSid, nextCid,
                 run, runInfo, failed, faults, lim>>

\* ---------------------------------------------------------- CourseScreen
CourseRendered == HasCourse(mem["course"].courses, route.courseId)

\* The 2-second polling interval calls reload().
CoursePoll ==
  /\ nav = "course" /\ Room
  /\ \A k \in DOMAIN pending : ~(pending[k].kind = "load" /\ pending[k].inst = "course")
  /\ pending' = Append(pending, LoadRequest("course"))
  /\ UNCHANGED <<now, store, mem, nav, route, timerState, cl, ui, appState,
                 nextSid, nextCid, run, runInfo, failed, faults, lim>>

CourseDelete ==
  /\ nav = "course" /\ Room /\ CourseRendered
  /\ removeCourse("course", route.courseId)
  /\ UNCHANGED <<now, store, nav, route, timerState, cl, ui, appState, nextSid,
                 nextCid, run, runInfo, failed, faults, lim>>

CourseBack ==
  /\ nav = "course"
  /\ nav' = "home"
  /\ pending' = Unmount(pending, {"course"})
  /\ mem' = Dropped(mem, {"course"})
  /\ route' = NoRoute
  /\ UNCHANGED <<now, store, timerState, cl, ui, appState, nextSid,
                 nextCid, run, runInfo, failed, faults, lim>>

\* ----------------------------------------------------------- TimerScreen

\* The timer effect runs again only when timerState.isRunning differs from
\* the previous render's: then the new interval callback captures this
\* render's timerState.targetSeconds and this render's `sessions`; when the
\* clock stops, the interval is cleared.
TimerEffect(wasRunning, ts, sessions) ==
  IF ts.isRunning
    THEN IF wasRunning THEN cl
         ELSE [targetSeconds |-> ts.targetSeconds, sessions |-> sessions]
    ELSE NoClosure

\* useState initial value, handleSameTime, handleCustomTimeSubmit
StartedTimer(minutes) ==
  [isRunning |-> TRUE, remainingSeconds |-> minutesToSeconds(minutes),
   elapsedSeconds |-> 0, targetSeconds |-> minutesToSeconds(minutes),
   startTime |-> now]

\* History: a new run begins, with this target.
BeginRun(minutes) ==
  /\ run < lim.runs
  /\ run' = run + 1
  /\ runInfo' = [runInfo EXCEPT ![run + 1] =
                   [NoRunInfo EXCEPT !.target = minutesToSeconds(minutes)]]

\* customMinutes > 0 && customMinutes <= 480: false for NaN
ValidCustomMinutes(customMinutes) ==
  /\ ~customMinutes.nan
  /\ customMinutes.n > 0 /\ customMinutes.n <= MaxDurationMinutes

\* handleStartTimer / the custom duration Start button: TimerScreen mounts,
\* its first render has the hook's initial state (no courses, no sessions),
\* and its effects start the interval and the load.
CustomStart(customDuration) ==
  /\ nav = "course" /\ CourseRendered
  /\ LET minutes == parseInt(customDuration)
     IN IF customDuration # <<>> /\ ValidCustomMinutes(minutes)
          THEN /\ Room
               /\ route' = [route EXCEPT !.durationMinutes = minutes.n]
               /\ timerState' = StartedTimer(minutes.n)
               /\ BeginRun(minutes.n)
               /\ nav' = "timer"
               /\ mem' = [mem EXCEPT !["timer"] = EmptyHook]
               /\ cl' = TimerEffect(FALSE, timerState', <<>>)
               /\ ui' = NoModals
               /\ pending' = Append(pending, LoadRequest("timer"))
          ELSE UNCHANGED <<route, timerState, run, runInfo, nav, mem, cl, ui,
                           pending>>
  /\ UNCHANGED <<now, store, appState, nextSid, nextCid, failed, faults, lim>>

CourseStartTimer ==
  \E customDuration \in CustomDurationInputs : CustomStart(customDuration)

\* TimerScreen returns the "Course not found" view, without controls or
\* modals, while its hook instance has no such course.
TimerRendered == nav = "timer" /\ HasCourse(mem["timer"].courses, route.courseId)

ModalVisible == ui.completion \/ ui.newCycle \/ ui.customInput

\* The control tiles can be pressed: the app is in front and no Modal covers them.
ControlsUsable == TimerRendered /\ appState = "active" /\ ~ModalVisible

\* Math.floor((now - startTime) / 1000), 0 when startTime is null
ElapsedSince(startTime) ==
  IF startTime # Null THEN (now - startTime) \div MsPerSecond ELSE 0

\* TimerScreen leaves the stack: CourseScreen below regains focus and reloads.
TimerGoBack ==
  /\ nav' = "course"
  /\ route' = [route EXCEPT !.durationMinutes = 0]
  /\ appState' = "active"
  /\ timerState' = TimerIdle
  /\ cl' = NoClosure
  /\ ui' = NoModals

\* remaining < 0
TickCompletesBelowZero(prev) ==
  Max(0, prev.targetSeconds - ElapsedSince(prev.startTime)) < 0

\* The tick's branch: remaining <= 0
TickCompletes(prev) == Max(0, prev.targetSeconds - ElapsedSince(prev.startTime)) <= 0

\* setInterval callback, not completing
Tick ==
  /\ nav = "timer" /\ timerState.isRunning
  /\ ~TickCompletes(timerState)
  /\ LET elapsed == ElapsedSince(timerState.startTime)
         remaining == Max(0, timerState.targetSeconds - elapsed)
     IN timerState' = [timerState EXCEPT !.remainingSeconds = remaining,
                                         !.elapsedSeconds = elapsed]
  /\ UNCHANGED <<now, store, mem, nav, route, cl, ui, appState, pending,
                 nextSid, nextCid, run, runInfo, failed, faults, lim>>

\* setInterval callback, completing: handleTimerComplete of the captured
\* render runs up to its await, and the clock stops.
TickComplete ==
  /\ nav = "timer" /\ timerState.isRunning
  /\ TickCompletes(timerState)
  /\ Room /\ nextSid < lim.sessions
  /\ addSession("timer", cl.sessions, route.courseId, cl.targetSeconds,
                cl.targetSeconds, FALSE, "handleTimerComplete")
  /\ timerState' = [timerState EXCEPT !.isRunning = FALSE,
                                      !.remainingSeconds = 0,
                                      !.elapsedSeconds = timerState.targetSeconds]
  /\ cl' = TimerEffect(TRUE, timerState', mem'["timer"].sessions)
  /\ runInfo' = [runInfo EXCEPT ![run].completed = @ + 1]
  /\ UNCHANGED <<now, store, nav, route, ui, appState, nextCid, run, failed, faults, lim>>

\* AppState 'change' to background / inactive
Background ==
  /\ nav = "timer" /\ appState = "active"
  /\ appState' = "background"
  /\ UNCHANGED <<now, store, mem, nav, route, timerState, cl, ui, pending,
                 nextSid, nextCid, run, runInfo, failed, faults, lim>>

\* handleAppStateChange('active') after background
Foreground ==
  /\ nav = "timer" /\ appState = "background"
  /\ appState' = "active"
  /\ IF timerState.isRunning /\ timerState.startTime # Null
       THEN LET elapsed == (now - timerState.startTime) \div MsPerSecond
                remaining == Max(0, timerState.targetSeconds - elapsed)
            IN timerState' = [timerState EXCEPT !.remainingSeconds = remaining,
                                                !.elapsedSeconds = elapsed]
       ELSE timerState' = timerState
  /\ UNCHANGED <<now, store, mem, nav, route, cl, ui, pending, nextSid,
                 nextCid, run, runInfo, failed, faults, lim>>

handleResume ==
  /\ ControlsUsable /\ ~timerState.isRunning
  /\ timerState' = [timerState EXCEPT
       !.isRunning = TRUE,
       !.startTime = now - (timerState.targetSeconds - timerState.remainingSeconds)
                             * MsPerSecond]
  /\ cl' = TimerEffect(FALSE, timerState', mem["timer"].sessions)
  /\ UNCHANGED <<now, store, mem, nav, route, ui, appState, pending, nextSid,
                 nextCid, run, runInfo, failed, faults, lim>>

handlePause ==
  /\ ControlsUsable /\ timerState.isRunning
  /\ timerState' = [timerState EXCEPT !.isRunning = FALSE]
  /\ cl' = TimerEffect(TRUE, timerState', mem["timer"].sessions)
  /\ UNCHANGED <<now, store, mem, nav, route, ui, appState, pending, nextSid,
                 nextCid, run, runInfo, failed, faults, lim>>

handleReset ==
  /\ ControlsUsable
  /\ timerState' = [isRunning |-> FALSE,
                    remainingSeconds |-> minutesToSeconds(route.durationMinutes),
                    elapsedSeconds |-> 0,
                    targetSeconds |-> minutesToSeconds(route.durationMinutes),
                    startTime |-> Null]
  /\ cl' = TimerEffect(timerState.isRunning, timerState', mem["timer"].sessions)
  /\ UNCHANGED <<now, store, mem, nav, route, ui, appState, pending, nextSid,
                 nextCid, run, runInfo, failed, faults, lim>>

\* A handleTerminate without the early return: it records at any elapsed time.
TerminatesWithoutSessionNever(ts) == ts.elapsedSeconds < 0

\* handleTerminate's first branch: nothing is recorded
TerminatesWithoutSession(ts) == ts.elapsedSeconds = 0

\* History: Terminate was pressed at this elapsed time.
NoteTerminate ==
  runInfo' = [runInfo EXCEPT ![run].terms = @ + 1,
                             ![run].termElapsed =
                                IF runInfo[run].terms = 0
                                  THEN timerState.elapsedSeconds ELSE @]

handleTerminate ==
  /\ ControlsUsable
  /\ NoteTerminate
  /\ IF TerminatesWithoutSession(timerState)
       THEN /\ TimerGoBack
            /\ pending' = Append(Unmount(pending, {"timer"}), LoadRequest("course"))
            /\ mem' = Dropped(mem, {"timer"})
            /\ UNCHANGED nextSid
       ELSE /\ Room /\ nextSid < lim.sessions
            /\ addSession("timer", mem["timer"].sessions, route.courseId,
                          timerState.elapsedSeconds, timerState.targetSeconds,
                          TRUE, "handleTerminate")
            /\ UNCHANGED <<nav, route, timerState, cl, ui, appState>>
  /\ UNCHANGED <<now, store, nextCid, run, failed, faults, lim>>

\* The navigator's header Back button
TimerBack ==
  /\ nav = "timer" /\ appState = "active" /\ ~(TimerRendered /\ ModalVisible)
  /\ TimerGoBack
  /\ pending' = Append(Unmount(pending, {"timer"}), LoadRequest("course"))
  /\ mem' = Dropped(mem, {"timer"})
  /\ UNCHANGED <<now, store, nextSid, nextCid, run, runInfo, failed, faults, lim>>

\* Completion Modal: onRequestClose (the hardware back button)
CloseCompletionModal ==
  /\ TimerRendered /\ appState = "active" /\ ui.completion
  /\ ui' = [ui EXCEPT !.completion = FALSE]
  /\ UNCHANGED <<now, store, mem, nav, route, timerState, cl, appState, pending,
                 nextSid, nextCid, run, runInfo, failed, faults, lim>>

handleStartNewCycle ==
  /\ TimerRendered /\ appState = "active" /\ ui.completion
  /\ ui' = [ui EXCEPT !.completion = FALSE, !.newCycle = TRUE]
  /\ UNCHANGED <<now, store, mem, nav, route, timerState, cl, appState, pending,
                 nextSid, nextCid, run, runInfo, failed, faults, lim>>

handleExit ==
  /\ TimerRendered /\ appState = "active" /\ ui.completion
  /\ TimerGoBack
  /\ pending' = Append(Unmount(pending, {"timer"}), LoadRequest("course"))
  /\ mem' = Dropped(mem, {"timer"})
  /\ UNCHANGED <<now, store, nextSid, nextCid, run, runInfo, failed, faults, lim>>

handleSameTime ==
  /\ TimerRendered /\ appState = "active" /\ ui.newCycle
  /\ ui' = [ui EXCEPT !.newCycle = FALSE]
  /\ timerState' = StartedTimer(route.durationMinutes)
  /\ BeginRun(route.durationMinutes)
  /\ cl' = TimerEffect(timerState.isRunning, timerState', mem["timer"].sessions)
  /\ UNCHANGED <<now, store, mem, nav, route, appState, pending, nextSid,
                 nextCid, failed, faults, lim>>

handleCustomTime ==
  /\ TimerRendered /\ appState = "active" /\ ui.newCycle
  /\ ui' = [ui EXCEPT !.newCycle = FALSE, !.customInput = TRUE]
  /\ UNCHANGED <<now, store, mem, nav, route, timerState, cl, appState, pending,
                 nextSid, nextCid, run, runInfo, failed, faults, lim>>

\* handleCustomTimeSubmit with this text in the field; a rejected text only
\* raises the Alert.
CustomTimeSubmit(customTimeInput) ==
  /\ TimerRendered /\ appState = "active" /\ ui.customInput
  /\ LET customMinutes == parseInt(customTimeInput)
     IN IF ValidCustomMinutes(customMinutes)
          THEN /\ ui' = [ui EXCEPT !.customInput = FALSE]
               /\ timerState' = StartedTimer(customMinutes.n)
               /\ BeginRun(customMinutes.n)
               /\ cl' = TimerEffect(timerState.isRunning, timerState',
                                    mem["timer"].sessions)
          ELSE UNCHANGED <<ui, timerState, cl, run, runInfo>>
  /\ UNCHANGED <<now, store, mem, nav, route, appState, pending, nextSid,
                 nextCid, failed, faults, lim>>

handleCustomTimeSubmit ==
  \E customTimeInput \in CustomTimeInputs : CustomTimeSubmit(customTimeInput)

\* ------------------------------------------------------- storage answers
Answered == Head(pending)

\* loadData after its await, on hook state h: JSON.parse and setCourses, then
\* JSON.parse and setSessions; a JSON.parse that throws goes to the catch, and
\* the statements after it are not run.
loadData(h, st) ==
  IF "courses" \in st.unparseable THEN h
  ELSE IF "sessions" \in st.unparseable THEN [h EXCEPT !.courses = st.courses]
  ELSE HookOf(st)

\* loadData: the four getItem calls are answered (both blobs exist).
LoadAnswered ==
  /\ pending # <<>> /\ Answered.kind = "load"
  /\ pending' = Tail(pending)
  /\ mem' = IF Answered.live
              THEN [mem EXCEPT ![Answered.inst] = loadData(mem[Answered.inst], store)]
              ELSE mem
  /\ UNCHANGED <<now, store, nav, route, timerState, cl, ui, appState, nextSid,
                 nextCid, run, runInfo, failed, faults, lim>>

\* AsyncStorage.setItem resolves (ok) or rejects.
Written(ok) ==
  /\ ok \/ faults
  /\ store' = IF ok
                THEN [store EXCEPT ![Answered.key] = Answered.val,
                                   !.unparseable = @ \ {Answered.key}]
                ELSE store
  /\ failed' = (failed \/ ~ok)

\* addCourse and updateCourse after their await: nothing more; a rejection is
\* rethrown to an Alert.
WriteAnsweredPlain ==
  /\ pending # <<>> /\ Answered.kind = "write"
  /\ Answered.cont \in {"addCourse", "updateCourse", "removeCourse2"}
  /\ \E ok \in BOOLEAN :
       /\ Written(ok)
       /\ IF ok /\ Answered.cont = "removeCourse2" /\ Answered.inst = "course"
               /\ Answered.live
            THEN \* handleDeleteCourse: navigation.navigate('HomeScreen')
                 /\ nav' = "home"
                 /\ route' = NoRoute
                 /\ timerState' = TimerIdle /\ cl' = NoClosure /\ ui' = NoModals
                 /\ appState' = "active"
                 /\ pending' = Unmount(Tail(pending), {"course", "timer"})
                 /\ mem' = Dropped(mem, {"course", "timer"})
            ELSE /\ pending' = Tail(pending)
                 /\ UNCHANGED <<mem, nav, route, timerState, cl, ui, appState>>
  /\ UNCHANGED <<now, nextSid, nextCid, run, runInfo, faults, lim>>

\* removeCourse after its first await: the sessions it captured, filtered,
\* become the instance's sessions and are written.
RemoveCourseSessions ==
  /\ pending # <<>> /\ Answered.kind = "write" /\ Answered.cont = "removeCourse1"
  /\ \E ok \in BOOLEAN :
       /\ Written(ok)
       /\ IF ok
            THEN LET updatedSessions == SessionsWithout(Answered.clos, Answered.id)
                 IN /\ mem' = SetHook(mem, Answered.inst, "sessions",
                                      updatedSessions, Answered.live)
                    /\ pending' = Append(Tail(pending),
                         [Request("write", "sessions", updatedSessions,
                                  "removeCourse2", Answered.inst, Answered.id, <<>>)
                            EXCEPT !.live = Answered.live])
            ELSE /\ pending' = Tail(pending)
                 /\ mem' = mem
  /\ UNCHANGED <<now, nav, route, timerState, cl, ui, appState, nextSid, nextCid,
                 run, runInfo, faults, lim>>

\* handleTimerComplete after `await addSession`: the completion modal and
\* reload(); a rejection goes to the Alert.
CompleteAnswered ==
  /\ pending # <<>> /\ Answered.kind = "write"
  /\ Answered.cont = "handleTimerComplete"
  /\ \E ok \in BOOLEAN :
       /\ Written(ok)
       /\ IF ok /\ Answered.live
            THEN /\ ui' = [ui EXCEPT !.completion = TRUE]
                 /\ pending' = Append(Tail(pending), LoadRequest("timer"))
            ELSE /\ ui' = ui
                 /\ pending' = Tail(pending)
  /\ UNCHANGED <<now, mem, nav, route, timerState, cl, appState, nextSid,
                 nextCid, run, runInfo, faults, lim>>

\* handleTerminate after `await addSession`: navigation.goBack(); a
\* rejection goes to the Alert and the screen stays.
TerminateAnswered ==
  /\ pending # <<>> /\ Answered.kind = "write"
  /\ Answered.cont = "handleTerminate"
  /\ \E ok \in BOOLEAN :
       /\ Written(ok)
       /\ IF ok /\ Answered.live
            THEN /\ TimerGoBack
                 /\ pending' = Append(Unmount(Tail(pending), {"timer"}),
                                      LoadRequest("course"))
                 /\ mem' = Dropped(mem, {"timer"})
            ELSE /\ pending' = Tail(pending)
                 /\ UNCHANGED <<mem, nav, route, timerState, cl, ui, appState>>
  /\ UNCHANGED <<now, nextSid, nextCid, run, runInfo, faults, lim>>

\* ------------------------------------------------------------------ clock
Advance ==
  /\ nav = "timer"
  /\ now < (lim.advances + 1) * AdvanceMs
  /\ now' = now + AdvanceMs
  /\ UNCHANGED <<store, mem, nav, route, timerState, cl, ui, appState, pending,
                 nextSid, nextCid, run, runInfo, failed, faults, lim>>

Next ==
  \/ HomeAddCourse \/ HomeRemoveCourse \/ HomeOpenCourse
  \/ CoursePoll \/ CourseDelete \/ CourseBack \/ CourseStartTimer
  \/ Tick \/ TickComplete \/ Background \/ Foreground
  \/ handleResume \/ handlePause \/ handleReset \/ handleTerminate \/ TimerBack
  \/ CloseCompletionModal \/ handleStartNewCycle \/ handleExit
  \/ handleSameTime \/ handleCustomTime \/ handleCustomTimeSubmit
  \/ LoadAnswered \/ WriteAnsweredPlain \/ RemoveCourseSessions
  \/ CompleteAnswered \/ TerminateAnswered
  \/ Advance

Spec == Init /\ [][Next]_vars

\* ----------------------------------------------- the timer screen alone
\* The app was launched, its load answered, and a course opened from the
\* home screen; CourseScreen's load was answered too.  From here only the
\* timer screen acts: started from CourseScreen, left by goBack.
InitTimer ==
  /\ now = AdvanceMs
  /\ store = SeedStore
  /\ mem = [i \in Screens |->
            IF i \in {"home", "course"} THEN HookOf(SeedStore) ELSE EmptyHook]
  /\ nav = "course"
  /\ route = [courseId |-> SeedStore.courses[1].id, durationMinutes |-> 0]
  /\ timerState = TimerIdle
  /\ cl = NoClosure
  /\ ui = NoModals
  /\ appState = "active"
  /\ pending = <<>>
  /\ nextSid = 1
  /\ nextCid = 1
  /\ run = 0
  /\ lim = [runs |-> MaxRuns, sessions |-> MaxSessions, advances |-> MaxAdvances]
  /\ runInfo = [r \in 1..lim.runs |-> NoRunInfo]
  /\ failed = FALSE
  /\ faults = FALSE

NextTimer ==
  \/ CourseStartTimer
  \/ Tick \/ TickComplete \/ Background \/ Foreground
  \/ handleResume \/ handlePause \/ handleReset \/ handleTerminate \/ TimerBack
  \/ CloseCompletionModal \/ handleStartNewCycle \/ handleExit
  \/ handleSameTime \/ handleCustomTime \/ handleCustomTimeSubmit
  \/ LoadAnswered \/ CompleteAnswered \/ TerminateAnswered
  \/ Advance

SpecTimer == InitTimer /\ [][NextTimer]_vars

\* -------------------------- the timer screen over a store that can reject
\* As InitTimer, with AsyncStorage.setItem free to reject.
InitTimerFaults ==
  /\ now = AdvanceMs
  /\ store = SeedStore
  /\ mem = [i \in Screens |->
            IF i \in {"home", "course"} THEN HookOf(SeedStore) ELSE EmptyHook]
  /\ nav = "course"
  /\ route = [courseId |-> SeedStore.courses[1].id, durationMinutes |-> 0]
  /\ timerState = TimerIdle
  /\ cl = NoClosure
  /\ ui = NoModals
  /\ appState = "active"
  /\ pending = <<>>
  /\ nextSid = 1
  /\ nextCid = 1
  /\ run = 0
  /\ lim = [runs |-> MaxRuns, sessions |-> MaxSessions, advances |-> MaxAdvances]
  /\ runInfo = [r \in 1..lim.runs |-> NoRunInfo]
  /\ failed = FALSE
  /\ faults = TRUE

SpecTimerFaults == InitTimerFaults /\ [][NextTimer]_vars

\* ------------------------------------------- the screens sharing the store
\* From launch: the home and course screens with all their storage
\* operations, and the timer screen as a writer of sessions (started,
\* ticked, terminated or left).  The store may reject writes.
NextStore ==
  \/ HomeAddCourse \/ HomeRemoveCourse \/ HomeOpenCourse
  \/ CoursePoll \/ CourseDelete \/ CourseBack \/ CourseStartTimer
  \/ Tick \/ handleTerminate \/ TimerBack
  \/ LoadAnswered \/ WriteAnsweredPlain \/ RemoveCourseSessions
  \/ TerminateAnswered
  \/ Advance

SpecStore == Init /\ [][NextStore]_vars

\* ------------------------------- a launch over blobs that may not parse
\* As Init, with any of the two collection blobs unparseable.
InitCorrupt ==
  /\ now = AdvanceMs
  /\ \E bad \in SUBSET {"courses", "sessions"} :
       store = [SeedStore EXCEPT !.unparseable = bad]
  /\ mem = [i \in Screens |-> EmptyHook]
  /\ nav = "home"
  /\ route = NoRoute
  /\ timerState = TimerIdle
  /\ cl = NoClosure
  /\ ui = NoModals
  /\ appState = "active"
  /\ pending = <<LoadRequest("home")>>
  /\ nextSid = 1
  /\ nextCid = 1
  /\ run = 0
  /\ lim = [runs |-> StoreBudget, sessions |-> StoreBudget + 1,
            advances |-> StoreBudget]
  /\ runInfo = [r \in 1..lim.runs |-> NoRunInfo]
  /\ failed = FALSE
  /\ faults = FALSE

SpecCorrupt == InitCorrupt /\ [][NextStore]_vars

\* ------------------------------------------ the course list and its screens
\* From launch: HomeScreen adding, renaming and removing courses, and
\* CourseScreen (an instance of its own) deleting its course.  The store may
\* reject writes or not.
InitCourses ==
  /\ now = AdvanceMs
  /\ store = SeedStore
  /\ mem = [i \in Screens |-> EmptyHook]
  /\ nav = "home"
  /\ route = NoRoute
  /\ timerState = TimerIdle
  /\ cl = NoClosure
  /\ ui = NoModals
  /\ appState = "active"
  /\ pending = <<LoadRequest("home")>>
  /\ nextSid = 1
  /\ nextCid = 1
  /\ run = 0
  /\ lim = [runs |-> StoreBudget, sessions |-> StoreBudget,
            advances |-> StoreBudget]
  /\ runInfo = [r \in 1..lim.runs |-> NoRunInfo]
  /\ failed = FALSE
  /\ faults \in BOOLEAN

NextCourses ==
  \/ HomeAddCourse \/ HomeRenameCourse \/ HomeRemoveCourse \/ HomeOpenCourse
  \/ CourseDelete \/ CourseBack
  \/ LoadAnswered \/ WriteAnsweredPlain \/ RemoveCourseSessions

SpecCourses == InitCourses /\ [][NextCourses]_vars

\* ================================================================ claims
\* The persisted sessions that run r produced.
SessionsOfRun(r) == {i \in DOMAIN store.sessions : store.sessions[i].run = r}

\* Every storage request has been answered.
Settled == pending = <<>>

\* C1: every run that reached natural completion has, once its writes are
\* answered and none was rejected, exactly one persisted session, and that
\* session is full: isPartial = FALSE, durationSeconds = targetSeconds = the
\* target the run was started with.
C1_CompletedRunHasOneFullSession ==
  \A r \in DOMAIN runInfo :
    (runInfo[r].completed > 0 /\ Settled /\ ~failed) =>
      /\ Cardinality(SessionsOfRun(r)) = 1
      /\ \A i \in SessionsOfRun(r) :
           /\ store.sessions[i].isPartial = FALSE
           /\ store.sessions[i].durationSeconds = store.sessions[i].targetSeconds
           /\ store.sessions[i].targetSeconds = runInfo[r].target

\* C2: every run on which Terminate was pressed with elapsedSeconds > 0 has,
\* once its writes are answered and none was rejected, exactly one persisted
\* session: partial, with the run's target, and with
\* durationSeconds = the elapsed time at the press < targetSeconds.
C2_TerminatedRunHasOnePartialSession ==
  \A r \in DOMAIN runInfo :
    (runInfo[r].terms > 0 /\ runInfo[r].termElapsed > 0 /\ Settled /\ ~failed) =>
      /\ Cardinality(SessionsOfRun(r)) = 1
      /\ \A i \in SessionsOfRun(r) :
           /\ store.sessions[i].isPartial = TRUE
           /\ store.sessions[i].targetSeconds = runInfo[r].target
           /\ store.sessions[i].durationSeconds = runInfo[r].termElapsed
           /\ store.sessions[i].durationSeconds < store.sessions[i].targetSeconds

\* A step in which Terminate is pressed on the current run.
TerminatePressed ==
  /\ nav = "timer" /\ run' = run
  /\ runInfo'[run].terms = runInfo[run].terms + 1

\* The writes awaiting an answer.
Writes(q) == {k \in DOMAIN q : q[k].kind = "write"}

\* The step issues a write to the store (it answers none).
IssuesWrite == Cardinality(Writes(pending')) > Cardinality(Writes(pending))

\* C3: pressing Terminate while elapsedSeconds = 0 persists nothing: the
\* stored collections are unchanged, no session is created and no write is
\* issued.
C3_TerminateAtZeroRecordsNothing ==
  [][(TerminatePressed /\ timerState.elapsedSeconds = 0) =>
       (store' = store /\ nextSid' = nextSid /\ ~IssuesWrite)]_vars

\* C3 witness: a run was terminated at elapsed 0, the screen was left, every
\* request is answered and the store is what it was.
C3_Witness ==
  \E r \in DOMAIN runInfo :
    /\ runInfo[r].terms = 1 /\ runInfo[r].termElapsed = 0
    /\ nav = "course" /\ Settled /\ store = SeedStore

\* C4: a run never has more than one persisted session.
C4_AtMostOneSessionPerRun ==
  \A r \in DOMAIN runInfo : Cardinality(SessionsOfRun(r)) <= 1

\* C5: the completion event fires at most once per run, and the step that
\* fires it stops the clock.
C5_CompletionFiresOnce ==
  [][\A r \in DOMAIN runInfo :
       runInfo'[r].completed > runInfo[r].completed =>
         (runInfo[r].completed = 0 /\ ~timerState'.isRunning)]_vars

\* C6: every persisted session has 0 <= durationSeconds <= targetSeconds.
C6_DurationWithinTarget ==
  \A i \in DOMAIN store.sessions :
    /\ 0 <= store.sessions[i].durationSeconds
    /\ store.sessions[i].durationSeconds <= store.sessions[i].targetSeconds

\* C7: a persisted session is full exactly when durationSeconds =
\* targetSeconds, and a partial one has 0 < durationSeconds < targetSeconds.
C7_PartialIffShort ==
  \A i \in DOMAIN store.sessions :
    /\ (store.sessions[i].isPartial = FALSE) <=>
         (store.sessions[i].durationSeconds = store.sessions[i].targetSeconds)
    /\ store.sessions[i].isPartial =>
         /\ 0 < store.sessions[i].durationSeconds
         /\ store.sessions[i].durationSeconds < store.sessions[i].targetSeconds

\* C8: a write of the sessions blob by the timer screen appends exactly one
\* session to what was stored: every stored session stays, in place and
\* unchanged.
C8_SessionsAppendOnly ==
  [][(nav = "timer" /\ store'.sessions # store.sessions) =>
       /\ Len(store'.sessions) = Len(store.sessions) + 1
       /\ SubSeq(store'.sessions, 1, Len(store.sessions)) = store.sessions]_vars

\* The step is the store accepting a write that removeCourse issued.
RemoveCourseWritten ==
  /\ pending # <<>> /\ Answered.kind = "write"
  /\ Answered.cont \in {"removeCourse1", "removeCourse2"}
  /\ store' # store

\* C9: while no write has been rejected, removeCourse(id) takes out of the
\* store the course id (its first write) and exactly the sessions of that
\* course (its second write); every other stored course and session stays.
C9_RemoveCourseRemovesExactly ==
  [][(RemoveCourseWritten /\ ~failed) =>
       /\ store'.courses = CoursesWithout(store.courses, Answered.id)
       /\ store'.sessions =
            IF Answered.cont = "removeCourse2"
              THEN SessionsWithout(store.sessions, Answered.id)
              ELSE store.sessions]_vars

\* No removeCourse is between its two writes.
NoRemovalInFlight ==
  \A k \in DOMAIN pending :
    pending[k].cont \notin {"removeCourse1", "removeCourse2"}

\* C10: whenever no removeCourse is under way, every stored session belongs
\* to a stored course.
C10_NoOrphanedSessions ==
  NoRemovalInFlight =>
    \A i \in DOMAIN store.sessions :
      HasCourse(store.courses, store.sessions[i].courseId)

\* The smaller of two integers
Min(a, b) == IF a < b THEN a ELSE b

\* The timer recomputes its readings from the clock: a tick of the interval,
\* or the app coming back to the foreground while the timer runs.
Recomputes == Tick \/ TickComplete \/ (Foreground /\ timerState.isRunning)

\* C11: after a tick or a foreground signal of a running timer, whatever time
\* has passed since the readings were last computed, elapsedSeconds is
\* floor((now - startTime)/1000) capped at the target and remainingSeconds is
\* max(0, targetSeconds - floor((now - startTime)/1000)).
C11_ReadingsFromTimestamps ==
  [][Recomputes =>
       LET elapsed == ElapsedSince(timerState.startTime)
       IN /\ timerState'.elapsedSeconds = Min(elapsed, timerState.targetSeconds)
          /\ timerState'.remainingSeconds =
               Max(0, timerState.targetSeconds - elapsed)]_vars

\* Time passing, or a tick or app-state event arriving.
TimeOrEvent == Advance \/ Tick \/ TickComplete \/ Foreground \/ Background

\* The two readings of the timer are the same after the step.
ReadingsKept ==
  /\ timerState'.elapsedSeconds = timerState.elapsedSeconds
  /\ timerState'.remainingSeconds = timerState.remainingSeconds

\* C12: Pause stops the clock and keeps the readings; while the clock is
\* stopped, passing time, ticks and app-state events leave elapsedSeconds and
\* remainingSeconds alone; Resume sets isRunning and
\* startTime = now - elapsedSeconds * 1000, so that no paused time is counted.
C12_PauseFreezesResumeContinues ==
  [][/\ handlePause => (~timerState'.isRunning /\ ReadingsKept)
     /\ (nav = "timer" /\ ~timerState.isRunning /\ TimeOrEvent) => ReadingsKept
     /\ handleResume =>
          /\ timerState'.isRunning
          /\ timerState'.startTime =
               now - timerState.elapsedSeconds * MsPerSecond]_vars

\* C13: Reset, in any run, stops the clock with elapsedSeconds = 0 and
\* remainingSeconds = targetSeconds = the target the current run was started
\* with, and records nothing.
C13_ResetRestoresRunTarget ==
  [][handleReset =>
       /\ ~timerState'.isRunning
       /\ timerState'.elapsedSeconds = 0
       /\ timerState'.remainingSeconds = runInfo[run].target
       /\ timerState'.targetSeconds = runInfo[run].target
       /\ store' = store /\ nextSid' = nextSid /\ ~IssuesWrite]_vars

\* The current run has reached natural completion or has been terminated.
RunEnded ==
  /\ nav = "timer" /\ run \in DOMAIN runInfo
  /\ (runInfo[run].completed > 0 \/ runInfo[run].terms > 0)

\* A control tile is pressed or the interval ticks.
TimerActs ==
  handlePause \/ handleResume \/ handleReset \/ handleTerminate
    \/ Tick \/ TickComplete

\* C14: Completed and Terminated are terminal: once the run has completed or
\* been terminated, Pause, Resume, Reset, Terminate and ticks neither change
\* the timer's state nor record anything.
C14_TerminalStatesAreFinal ==
  [][(RunEnded /\ TimerActs) =>
       (timerState' = timerState /\ nextSid' = nextSid /\ ~IssuesWrite)]_vars

\* The user leaves TimerScreen by the navigator's Back while the current run
\* has neither completed nor been terminated (so nothing is recorded for it).
NavigatesAwayInProgress ==
  /\ TimerBack
  /\ run \in DOMAIN runInfo
  /\ runInfo[run].completed = 0 /\ runInfo[run].terms = 0

\* The step issues the write of one partial session of the current run with
\* the elapsed time shown.
FlushesPartial ==
  /\ Cardinality(Writes(pending')) = Cardinality(Writes(pending)) + 1
  /\ \E k \in Writes(pending') :
       /\ pending'[k].key = "sessions" /\ pending'[k].val # <<>>
       /\ LET s == pending'[k].val[Len(pending'[k].val)]
          IN /\ s.run = run /\ s.isPartial
             /\ s.durationSeconds = timerState.elapsedSeconds

\* C15: leaving TimerScreen while a run is in progress records like Terminate:
\* with elapsedSeconds > 0 one partial session of that duration is written,
\* with elapsedSeconds = 0 nothing is.
C15_LeavingRecordsLikeTerminate ==
  [][NavigatesAwayInProgress =>
       IF timerState.elapsedSeconds > 0
         THEN FlushesPartial
         ELSE ~IssuesWrite /\ store' = store]_vars

\* The text is a number of minutes between 1 and 480: digits only, and their
\* value within the bound.
RequestsBoundedMinutes(text) ==
  /\ text # <<>>
  /\ \A k \in DOMAIN text : IsDigit(text[k])
  /\ LeadingDigits(text, 0) \in 1..MaxDurationMinutes

\* Nothing of the timer or of the store is touched by the step.
DurationRejected ==
  /\ nav' = nav /\ run' = run
  /\ timerState' = timerState
  /\ store' = store /\ ~IssuesWrite

\* C16: every run starts with a target of 1 to 480 minutes, and a requested
\* duration that is not a number or is outside that bound is rejected, on
\* CourseScreen and in the new-cycle dialog alike, leaving the timer state and
\* the store as they were.
C16_DurationBoundEnforced ==
  [][/\ \A r \in DOMAIN runInfo :
          runInfo'[r].target # runInfo[r].target =>
            \E m \in 1..MaxDurationMinutes :
              runInfo'[r].target = minutesToSeconds(m)
     /\ \A text \in CustomDurationInputs :
          (CustomStart(text) /\ ~RequestsBoundedMinutes(text)) => DurationRejected
     /\ \A text \in CustomTimeInputs :
          (CustomTimeSubmit(text) /\ ~RequestsBoundedMinutes(text)) =>
            DurationRejected]_vars

\* The store rejects the write of a session list.
SessionWriteRejected ==
  /\ pending # <<>> /\ Answered.kind = "write" /\ Answered.key = "sessions"
  /\ pending' # pending /\ store' = store /\ failed'
  /\ (CompleteAnswered \/ TerminateAnswered)

\* After a write was rejected, with nothing in flight and no session of the
\* current run in the store, the record is tried again: Terminate is pressed
\* again, or the timer completes again.
RetryIssued ==
  /\ failed /\ nav = "timer" /\ run \in DOMAIN runInfo
  /\ pending = <<>> /\ SessionsOfRun(run) = {}
  /\ (handleTerminate \/ TickComplete)
  /\ IssuesWrite

\* The sessions of run r in the list that the newest request writes.
WrittenOfRun(q, r) ==
  {i \in DOMAIN q[Len(q)].val : q[Len(q)].val[i].run = r}

\* C17: a rejected session write is not retried by the program, the screen
\* stays so that the user can retry, and a retry writes a list that, once
\* accepted, leaves exactly one session of that run in the store.
C17_FailedWriteCanBeRetriedOnce ==
  [][/\ SessionWriteRejected =>
          (~IssuesWrite /\ (Answered.live => nav' = nav))
     /\ RetryIssued => Cardinality(WrittenOfRun(pending', run)) = 1]_vars

\* The collections kept by the hook
Collections == {"courses", "sessions"}

\* C18: when a load is answered, a collection whose blob does not parse is
\* taken as empty, and every collection whose blob parses is loaded with what
\* is stored; the load finishes (it is no longer awaited).
C18_CorruptBlobIsEmptyCollection ==
  [][(LoadAnswered /\ Answered.live) =>
       /\ \A key \in Collections :
            mem'[Answered.inst][key] =
              IF key \in store.unparseable THEN <<>> ELSE store[key]
       /\ Len(pending') < Len(pending)]_vars

\* ------------------------------------------------------- calculateStreak
\* Session days tried before today, and the UTC day on which the device's
\* time zone last went from daylight to standard time.
StreakWindow == 3
FallBackDay == 10

MsPerHour == 3600000
MsPerDay == 86400000

\* toISOString().split('T')[0] of an instant: its UTC calendar day
utcDay(ms) == ms \div MsPerDay

\* The device's time zone: the offset of local time from UTC before and from
\* the instant `change`.
FixedZone == [early |-> 0, late |-> 0, change |-> 0]
FallBackZone ==
  [early |-> 0 - 4 * MsPerHour, late |-> 0 - 5 * MsPerHour,
   change |-> FallBackDay * MsPerDay + 6 * MsPerHour]
Zones == {FixedZone, FallBackZone}

\* Local time of an instant (getDate reads it)
LocalTime(zone, ms) ==
  ms + (IF ms < zone.change THEN zone.early ELSE zone.late)

\* The instant of a local time (setDate writes it; toISOString reads the
\* instant)
InstantOf(zone, local) ==
  IF local - zone.early < zone.change
    THEN local - zone.early ELSE local - zone.late

\* expectedDate: new Date(today), setDate(getDate() - i), and
\* toISOString().split('T')[0].  new Date('YYYY-MM-DD') is that day's UTC
\* midnight; setDate moves the local calendar day and keeps the local time
\* of day.
expectedDateStr(zone, today, i) ==
  LET local == LocalTime(zone, today * MsPerDay)
      moved == ((local \div MsPerDay) - i) * MsPerDay + (local % MsPerDay)
  IN utcDay(InstantOf(zone, moved))

RECURSIVE StreakLoop(_, _, _, _)
\* The for loop from index i: streak++ while the expected date is a session
\* date, break at the first that is not.
StreakLoop(zone, uniqueDates, today, i) ==
  IF i < Cardinality(uniqueDates)
       /\ expectedDateStr(zone, today, i) \in uniqueDates
    THEN 1 + StreakLoop(zone, uniqueDates, today, i + 1)
    ELSE 0

\* calculateStreak(sessions), called at instant ms on a device in `zone`
calculateStreak(zone, sessions, ms) ==
  IF Len(sessions) = 0 THEN 0
  ELSE StreakLoop(zone, {utcDay(sessions[k].startAt) : k \in DOMAIN sessions},
                  utcDay(ms), 0)

RECURSIVE SessionsOn(_)
\* One stored session on each of the days, oldest first
SessionsOn(days) ==
  IF days = {} THEN <<>>
  ELSE LET last == CHOOSE d \in days : \A e \in days : e <= d
       IN Append(SessionsOn(days \ {last}),
                 Session(last, 1, last * MsPerDay + MsPerHour,
                         minutesToSeconds(1), minutesToSeconds(1), FALSE, 0))

\* A launch, at noon UTC of a day at or after the zone change, over a store
\* with sessions on some of the days up to today.
InitStreak ==
  /\ \E today \in FallBackDay..(FallBackDay + 1) :
       /\ now = today * MsPerDay + 12 * MsPerHour
       /\ \E days \in SUBSET ((today - StreakWindow)..today) :
            store = [SeedStore EXCEPT !.sessions = SessionsOn(days)]
  /\ mem = [i \in Screens |-> EmptyHook]
  /\ nav = "home"
  /\ route = NoRoute
  /\ timerState = TimerIdle
  /\ cl = NoClosure
  /\ ui = NoModals
  /\ appState = "active"
  /\ pending = <<LoadRequest("home")>>
  /\ nextSid = 1
  /\ nextCid = 1
  /\ run = 0
  /\ lim = [runs |-> StoreBudget, sessions |-> StoreBudget + 1,
            advances |-> StoreBudget]
  /\ runInfo = [r \in 1..lim.runs |-> NoRunInfo]
  /\ failed = FALSE
  /\ faults = FALSE

\* HomeScreen shows calculateStreak(sessions) of its hook's sessions.
NextStreak ==
  \/ LoadAnswered
  \/ HomeAddCourse \/ HomeRemoveCourse
  \/ WriteAnsweredPlain \/ RemoveCourseSessions

SpecStreak == InitStreak /\ [][NextStreak]_vars

\* The number of consecutive days, back from today, that are session days:
\* the least i >= 0 with today - i not a session day.
ConsecutiveDays(dates, today) ==
  CHOOSE i \in 0..Cardinality(dates) :
    /\ (today - i) \notin dates
    /\ \A j \in 0..(i - 1) : (today - j) \in dates

\* C19: the streak HomeScreen shows, on a device in any time zone, is the
\* number of consecutive calendar days back from today that hold a session
\* (0 without sessions, 1 for today only, 2 for today and yesterday, 0 for
\* yesterday only).
C19_StreakCountsConsecutiveDays ==
  \A zone \in Zones :
    calculateStreak(zone, mem["home"].sessions, now) =
      ConsecutiveDays({utcDay(mem["home"].sessions[k].startAt) :
                         k \in DOMAIN mem["home"].sessions},
                      utcDay(now))

\* ------------------------------------------------------- AnalyticsScreen
\* course: null
NoCourse == Course(0, <<>>, 0, "")

\* The reduce's initial value { course: null, time: 0, sessionCount: 0 }
NoCourseStat == [course |-> NoCourse, time |-> 0, sessionCount |-> 0]

RECURSIVE courseTime(_, _)
\* courseSessions.reduce((sum, s) => sum + s.durationSeconds, 0) over the
\* sessions filtered by s.courseId === course.id
courseTime(sessions, id) ==
  IF sessions = <<>> THEN 0
  ELSE (IF Head(sessions).courseId = id THEN Head(sessions).durationSeconds ELSE 0)
         + courseTime(Tail(sessions), id)

\* courses.map(course => ({course, time, sessionCount}))
courseStats(courses, sessions) ==
  [k \in DOMAIN courses |->
     [course |-> courses[k],
      time |-> courseTime(sessions, courses[k].id),
      sessionCount |-> Len(sessions) - Len(SessionsWithout(sessions, courses[k].id))]]

\* current.time >= max.time
moreStudiedOrEqual(current, max) == current.time >= max.time

\* current.time > max.time
moreStudied(current, max) == current.time > max.time

RECURSIVE reduceStats(_, _, _)
\* courseStats.reduce((max, current) => ... ? current : max, max) from index k
reduceStats(stats, k, max) ==
  IF k > Len(stats) THEN max
  ELSE reduceStats(stats, k + 1,
                   IF moreStudied(stats[k], max) THEN stats[k] ELSE max)

mostStudiedCourse(courses, sessions) ==
  reduceStats(courseStats(courses, sessions), 1, NoCourseStat)

\* Minutes a stored session may have lasted
SessionMinutes == {5, 10, 15}

\* Course lists without a repeated id, of ids 1..MaxCourses
CourseLists ==
  {cs \in UNION {[1..n -> {Course(id, <<"a">>, 0, palette[1]) : id \in 1..MaxCourses}] :
                   n \in 0..MaxCourses} :
     \A j, k \in DOMAIN cs : j # k => cs[j].id # cs[k].id}

\* Session lists of up to MaxSessions sessions of those courses
SessionLists ==
  UNION {{[k \in 1..n |->
             Session(k, f[k][1], 0, minutesToSeconds(f[k][2]),
                     minutesToSeconds(f[k][2]), FALSE, 0)] :
            f \in [1..n -> (1..MaxCourses) \X SessionMinutes]} :
           n \in 0..MaxSessions}

\* The Analytics tab is opened: AnalyticsScreen mounts, and its hook instance
\* loads what is stored.
InitAnalytics ==
  /\ now = 0
  /\ \E courses \in CourseLists, sessions \in SessionLists :
       store = [courses |-> courses, sessions |-> sessions, unparseable |-> {}]
  /\ mem = [i \in Screens |-> IF i = "home" THEN HookOf(store) ELSE EmptyHook]
  /\ nav = "home"
  /\ route = NoRoute
  /\ timerState = TimerIdle
  /\ cl = NoClosure
  /\ ui = NoModals
  /\ appState = "active"
  /\ pending = <<LoadRequest("analytics")>>
  /\ nextSid = MaxSessions
  /\ nextCid = MaxCourses
  /\ run = 0
  /\ lim = [runs |-> StoreBudget, sessions |-> StoreBudget,
            advances |-> StoreBudget]
  /\ runInfo = [r \in 1..lim.runs |-> NoRunInfo]
  /\ failed = FALSE
  /\ faults = FALSE

\* The load is answered, and AnalyticsScreen renders `analytics` from its
\* hook's courses and sessions.
NextAnalytics == LoadAnswered

SpecAnalytics == InitAnalytics /\ [][NextAnalytics]_vars

\* The total duration of the sessions of course id
TotalDuration(sessions, id) ==
  LET of == {k \in DOMAIN sessions : sessions[k].courseId = id}
      Sum[S \in SUBSET of] ==
        IF S = {} THEN 0
        ELSE LET k == CHOOSE x \in S : TRUE
             IN sessions[k].durationSeconds + Sum[S \ {k}]
  IN Sum[of]

\* The analytics AnalyticsScreen computes from its hook state
Analytics ==
  mostStudiedCourse(mem["analytics"].courses, mem["analytics"].sessions)

\* C20: mostStudiedCourse is the first course, in course-list order, whose
\* total session duration is maximal over the course list; it is none when
\* there are no courses or every course's total is zero.
C20_MostStudiedIsFirstMaximal ==
  LET courses == mem["analytics"].courses
      sessions == mem["analytics"].sessions
      total(k) == TotalDuration(sessions, courses[k].id)
  IN IF \A k \in DOMAIN courses : total(k) = 0
       THEN Analytics.course = NoCourse
       ELSE \E k \in DOMAIN courses :
              /\ Analytics.course = courses[k]
              /\ Analytics.time = total(k)
              /\ \A j \in DOMAIN courses : total(j) <= total(k)
              /\ \A j \in 1..(k - 1) : total(j) < total(k)

\* Two courses tie for a non-zero maximum and the first of them is shown.
C20_Witness ==
  LET courses == mem["analytics"].courses
      sessions == mem["analytics"].sessions
  IN /\ Len(courses) >= 2
     /\ TotalDuration(sessions, courses[1].id) > 0
     /\ TotalDuration(sessions, courses[1].id)
          = TotalDuration(sessions, courses[2].id)
     /\ Analytics.course = courses[1]

\* A quotient n / d of two integers, kept as the fraction (d > 0)
Ratio(n, d) == [num |-> n, den |-> d]

\* The fraction q is the integer v
RatioIs(q, v) == q.num = v * q.den

RECURSIVE totalStudyTime(_)
\* sessions.reduce((sum, session) => sum + session.durationSeconds, 0)
totalStudyTime(sessions) ==
  IF sessions = <<>> THEN 0
  ELSE Head(sessions).durationSeconds + totalStudyTime(Tail(sessions))

\* The average in minutes: totalStudyTime / (totalSessions * 60)
averageSessionMinutes(sessions) ==
  IF Len(sessions) > 0
    THEN Ratio(totalStudyTime(sessions), Len(sessions) * SecondsPerMinute)
    ELSE Ratio(0, 1)

\* totalSessions > 0 ? totalStudyTime / totalSessions : 0
averageSessionDuration(sessions) ==
  IF Len(sessions) > 0
    THEN Ratio(totalStudyTime(sessions), Len(sessions))
    ELSE Ratio(0, 1)

\* courseTime / analytics.totalStudyTime, not multiplied by 100
percentageFraction(courses, sessions, k) ==
  IF totalStudyTime(sessions) > 0
    THEN Ratio(courseTime(sessions, courses[k].id), totalStudyTime(sessions))
    ELSE Ratio(0, 1)

\* Course Breakdown: analytics.totalStudyTime > 0
\*   ? (courseTime / analytics.totalStudyTime) * 100 : 0
percentage(courses, sessions, k) ==
  IF totalStudyTime(sessions) > 0
    THEN Ratio(courseTime(sessions, courses[k].id) * 100, totalStudyTime(sessions))
    ELSE Ratio(0, 1)

\* The (courseId, durationSeconds) pairs of the sessions, with their number
SessionBag(sessions) ==
  [p \in {<<sessions[k].courseId, sessions[k].durationSeconds>> :
            k \in DOMAIN sessions} |->
     Cardinality({k \in DOMAIN sessions :
                    <<sessions[k].courseId, sessions[k].durationSeconds>> = p})]

\* AnalyticsScreen holds courses A and B, two sessions of A (300 s, 600 s)
\* and one of B (900 s).
Scenario(A, B) ==
  LET courses == mem["analytics"].courses
      sessions == mem["analytics"].sessions
  IN /\ A # B
     /\ Len(courses) = 2
     /\ {courses[k].id : k \in DOMAIN courses} = {A, B}
     /\ SessionBag(sessions) =
          (<<A, 300>> :> 1) @@ (<<A, 600>> :> 1) @@ (<<B, 900>> :> 1)

\* Both breakdown percentages are 50, of a total of 1800 s.
ScenarioBreakdown ==
  LET courses == mem["analytics"].courses
      sessions == mem["analytics"].sessions
  IN /\ totalStudyTime(sessions) = 1800
     /\ \A k \in DOMAIN courses : RatioIs(percentage(courses, sessions, k), 50)

\* C21 as stated: in the scenario mostStudiedCourse is B, and the breakdown
\* is 50% each of 1800 s.
C21_ScenarioMostStudiedIsB ==
  \A A, B \in 1..MaxCourses :
    Scenario(A, B) => Analytics.course.id = B /\ ScenarioBreakdown

\* C21: in the scenario the two courses tie at 900 s, mostStudiedCourse is
\* the one that comes first in the course list (A when A is listed first),
\* and the breakdown is 50% each of 1800 s.
C21_ScenarioMostStudiedIsFirstListed ==
  \A A, B \in 1..MaxCourses :
    Scenario(A, B) =>
      /\ Analytics.course = mem["analytics"].courses[1]
      /\ Analytics.time = 900
      /\ ScenarioBreakdown

\* The scenario with A listed before B: mostStudiedCourse is A.
C21_Witness ==
  /\ Scenario(1, 2)
  /\ mem["analytics"].courses[1].id = 1
  /\ Analytics.course.id = 1
  /\ ScenarioBreakdown

\* The sum of durationSeconds over all the sessions
SumOfDurations(sessions) ==
  LET Sum[S \in SUBSET DOMAIN sessions] ==
        IF S = {} THEN 0
        ELSE LET k == CHOOSE x \in S : TRUE
             IN sessions[k].durationSeconds + Sum[S \ {k}]
  IN Sum[DOMAIN sessions]

secondsToMinutes(seconds) == (2 * seconds + SecondsPerMinute) \div (2 * SecondsPerMinute)

\* session.durationMinutes || 0: a property the object does not have reads as
\* undefined
durationMinutesOr0(session) ==
  IF "durationMinutes" \in DOMAIN session THEN session.durationMinutes ELSE 0

RECURSIVE totalMinutesForCourse(_, _)
\* courseSessions.reduce((sum, session) => sum + (session.durationMinutes || 0), 0)
\* over the sessions filtered by s.courseId === course.id
totalMinutesForCourse(sessions, id) ==
  IF sessions = <<>> THEN 0
  ELSE (IF Head(sessions).courseId = id THEN durationMinutesOr0(Head(sessions)) ELSE 0)
         + totalMinutesForCourse(Tail(sessions), id)

\* totalMinutes: the minutes shown on the card of each course of HomeScreen
totalMinutes ==
  [id \in {mem["home"].courses[k].id : k \in DOMAIN mem["home"].courses} |->
     totalMinutesForCourse(mem["home"].sessions, id)]

\* C23: the minutes on each course card of HomeScreen are the total recorded
\* duration of the course's sessions in minutes, and are not 0 for a course
\* with a session of a minute or more.
C23_CardShowsMinutesStudied ==
  \A id \in DOMAIN totalMinutes :
    /\ totalMinutes[id] = secondsToMinutes(TotalDuration(mem["home"].sessions, id))
    /\ (\E k \in DOMAIN mem["home"].sessions :
          /\ mem["home"].sessions[k].courseId = id
          /\ mem["home"].sessions[k].durationSeconds >= SecondsPerMinute)
         => totalMinutes[id] > 0

\* The sessions of list ss
SessionSet(ss) == {ss[k] : k \in DOMAIN ss}

\* C24: whenever HomeScreen is in front (and its load has finished), the
\* sessions it computes from include every session the timer screen has
\* persisted.
C24_HomeSeesPersistedSessions ==
  (nav = "home" /\ ~HomeLoading) =>
    \A s \in SessionSet(store.sessions) :
      s.run > 0 => s \in SessionSet(mem["home"].sessions)

\* The step is the store accepting the write that addCourse issued.
AddCourseWritten ==
  /\ pending # <<>> /\ Answered.kind = "write" /\ Answered.cont = "addCourse"
  /\ store' # store

\* cs2 is cs1 followed by one new course, of a trimmed name and of an id no
\* course of cs1 has.
OneCourseAdded(cs1, cs2) ==
  /\ Len(cs2) = Len(cs1) + 1
  /\ SubSeq(cs2, 1, Len(cs1)) = cs1
  /\ ~HasCourse(cs1, cs2[Len(cs2)].id)
  /\ cs2[Len(cs2)].name # <<>>
  /\ Trim(cs2[Len(cs2)].name) = cs2[Len(cs2)].name

\* C25: while no write has been rejected, addCourse(name) appends one new
\* course (trimmed name, fresh id) to the courses in memory when it is called
\* and to the persisted courses when its write is accepted, and leaves the
\* sessions alone.
C25_AddCourseAddsExactlyOne ==
  [][/\ (HomeAddCourse /\ ~failed) =>
          /\ OneCourseAdded(mem["home"].courses, mem'["home"].courses)
          /\ mem'["home"].sessions = mem["home"].sessions
     /\ (AddCourseWritten /\ ~failed) =>
          /\ OneCourseAdded(store.courses, store'.courses)
          /\ store'.sessions = store.sessions]_vars

\* The step is the store accepting the write that updateCourse issued.
UpdateCourseWritten ==
  /\ pending # <<>> /\ Answered.kind = "write" /\ Answered.cont = "updateCourse"
  /\ Len(pending') < Len(pending)
  /\ ~failed'

\* From cs1 to cs2 nothing but the name and the color of the course id has
\* changed (and nothing at all when cs1 has no course id)
OnlyNameAndColorChanged(cs1, cs2, id) ==
  /\ Len(cs2) = Len(cs1)
  /\ \A k \in DOMAIN cs1 :
       IF cs1[k].id = id
         THEN /\ DOMAIN cs2[k] = DOMAIN cs1[k]
              /\ \A f \in DOMAIN cs1[k] \ {"name", "color"} : cs2[k][f] = cs1[k][f]
         ELSE cs2[k] = cs1[k]

\* C26: while no write has been rejected, a rename from HomeScreen changes
\* only the name and color of the course of that id, in memory when Save is
\* pressed and in the store when the write is accepted: its id and createdAt,
\* every other course and every session stay, and no course changes when no
\* course has the id.
C26_RenameChangesOnlyNameAndColor ==
  [][/\ (HomeRenameCourse /\ ~failed) =>
          /\ OnlyNameAndColorChanged(mem["home"].courses, mem'["home"].courses,
                                     pending'[Len(pending')].id)
          /\ mem'["home"].sessions = mem["home"].sessions
     /\ UpdateCourseWritten =>
          /\ OnlyNameAndColorChanged(store.courses, store'.courses, Answered.id)
          /\ store'.sessions = store.sessions]_vars

\* C27: in every state of the timer screen, elapsedSeconds + remainingSeconds
\* is targetSeconds, and both lie in 0..targetSeconds.
C27_ElapsedPlusRemainingIsTarget ==
  nav = "timer" =>
    /\ timerState.elapsedSeconds + timerState.remainingSeconds
         = timerState.targetSeconds
    /\ timerState.elapsedSeconds \in 0..timerState.targetSeconds
    /\ timerState.remainingSeconds \in 0..timerState.targetSeconds

\* The step is the store rejecting a write, the first rejection of the
\* behaviour.
WriteRejected ==
  /\ pending # <<>> /\ Answered.kind = "write"
  /\ ~failed /\ failed'

\* C28: when the store rejects the write of addCourse, updateCourse,
\* removeCourse or addSession, the collection written, as the hook instance
\* that issued the write holds it in memory, is the collection the store
\* holds.
C28_StateUnchangedOnError ==
  [][(WriteRejected /\ Answered.live) =>
       mem'[Answered.inst][Answered.key] = store'[Answered.key]]_vars

\* The ids of the courses of list cs
CourseIds(cs) == {cs[k].id : k \in DOMAIN cs}

\* With every request answered and no write ever rejected: the course ids
\* handed out that the store no longer holds, i.e. those whose removeCourse
\* has succeeded.
RemovedIds == (1..nextCid) \ CourseIds(store.courses)

\* The step issues a storage write while no other request is in flight.
IssuesWriteAlone ==
  /\ pending = <<>> /\ ~failed
  /\ Len(pending') = 1 /\ pending'[1].kind = "write"

\* C29: once removeCourse(id) has succeeded, no write that any hook instance
\* issues afterwards holds course id or a session of it that the store does
\* not hold.
C29_RemovedCourseStaysRemoved ==
  [][IssuesWriteAlone =>
       \A id \in RemovedIds :
         IF pending'[1].key = "courses"
           THEN ~HasCourse(pending'[1].val, id)
           ELSE \A s \in SessionSet(pending'[1].val) :
                  s.courseId = id => s \in SessionSet(store.sessions)]_vars

\* ------------------------------------------- a run that is left to itself
\* A launch, over a store with or without an earlier session; one run may be
\* started, and the store rejects no write.
InitLive ==
  /\ now = AdvanceMs
  /\ store \in {SeedStore, [SeedStore EXCEPT !.sessions = <<>>]}
  /\ mem = [i \in Screens |-> EmptyHook]
  /\ nav = "home"
  /\ route = NoRoute
  /\ timerState = TimerIdle
  /\ cl = NoClosure
  /\ ui = NoModals
  /\ appState = "active"
  /\ pending = <<LoadRequest("home")>>
  /\ nextSid = 1
  /\ nextCid = 1
  /\ run = 0
  /\ lim = [runs |-> StoreBudget, sessions |-> MaxSessions, advances |-> MaxAdvances]
  /\ runInfo = [r \in 1..lim.runs |-> NoRunInfo]
  /\ failed = FALSE
  /\ faults = FALSE

\* The course is opened and a run is started and then left alone: no pause,
\* reset, terminate or navigation; the app may go to the background and come
\* back, and the completion modal may be closed.
NextLive ==
  \/ HomeOpenCourse \/ CoursePoll \/ CourseBack \/ CourseStartTimer
  \/ Tick \/ TickComplete \/ Background \/ Foreground
  \/ CloseCompletionModal
  \/ LoadAnswered \/ CompleteAnswered
  \/ Advance

\* The interval keeps firing, the clock keeps advancing, and the store
\* answers.
FairLive ==
  /\ WF_vars(Tick) /\ WF_vars(TickComplete) /\ WF_vars(Advance)
  /\ WF_vars(LoadAnswered) /\ WF_vars(CompleteAnswered)

SpecLive == InitLive /\ [][NextLive]_vars /\ FairLive

\* The run has completed and its full session is stored.
RunCompleted ==
  /\ ~timerState.isRunning /\ timerState.remainingSeconds = 0
  /\ \E s \in SessionSet(store.sessions) : s.run = run /\ ~s.isPartial

====
